---- MODULE Spec2Model ----
(***************************************************************************)
(* The calculator engine of the 3D calculator widget.  The repository      *)
(* holds two App components, each with its own engine: the useCalculator   *)
(* hook driven by the buttons of CalculatorBody (display, storedValue,     *)
(* operator, waitingForOperand, memory, history), and the Calculator       *)
(* component of src/App.tsx (displayValue, storedValue, operator,          *)
(* waitingForOperand).  component says which of the two is mounted.        *)
(*                                                                         *)
(* Numbers.  The hook computes with IEEE-754 doubles.  A number is         *)
(* modelled as a record [k, s, m]: kind ("fin", "inf", "nan", or "null"    *)
(* for the null of number | null), sign (1 or -1, so that -0 exists) and   *)
(* magnitude in units of 10^-MaxFrac.  The model covers the arithmetic in  *)
(* which a double result is the decimal result: operands that are exact    *)
(* doubles (Infinity, NaN, and multiples of 2^-MaxFrac) and results with   *)
(* at most MaxFrac fraction digits and magnitude at most MaxVal.  An       *)
(* operation outside that fragment is not taken by the model.              *)
(*                                                                         *)
(* Strings.  display and the words of a history line are sequences of      *)
(* one-character strings.  The operator keys × and ÷ are written "*" and   *)
(* "/", the sign key ± is written "+/-".                                   *)
(***************************************************************************)
EXTENDS Integers, Sequences, FiniteSets, TLC

\* Bounds of the model.
MaxVal == 99
MaxFrac == 1
MaxLen == 4
MaxHist == 3
MaxPresses == 3

RECURSIVE Pow(_, _)
Pow(b, n) == IF n = 0 THEN 1 ELSE b * Pow(b, n - 1)

Scale == Pow(10, MaxFrac)
Limit == MaxVal * Scale

Min(S) == CHOOSE x \in S : \A y \in S : x <= y

(***************************************************************************)
(* JavaScript numbers                                                      *)
(***************************************************************************)
Num(k, s, m) == [k |-> k, s |-> s, m |-> m]
null == Num("null", 1, 0)
NaN == Num("nan", 1, 0)
Inf(s) == Num("inf", s, 0)
Fin(s, m) == Num("fin", s, m)
Zero == Fin(1, 0)
\* The double of the integer i.
OfInt(i) == IF i < 0 THEN Fin(-1, (-i) * Scale) ELSE Fin(1, i * Scale)
IsZero(x) == x.k = "fin" /\ x.m = 0

\* Unary minus.
jsNeg(x) == IF x.k = "nan" THEN NaN ELSE Num(x.k, -x.s, x.m)

\* x + y
jsAdd(x, y) ==
    IF x.k = "nan" \/ y.k = "nan" THEN NaN
    ELSE IF x.k = "inf" THEN (IF y.k = "inf" /\ y.s # x.s THEN NaN ELSE x)
    ELSE IF y.k = "inf" THEN y
    ELSE LET v == x.s * x.m + y.s * y.m
         IN  IF v = 0 THEN Fin(IF x.s = -1 /\ y.s = -1 THEN -1 ELSE 1, 0)
             ELSE IF v < 0 THEN Fin(-1, -v) ELSE Fin(1, v)

\* x - y
jsSub(x, y) == jsAdd(x, jsNeg(y))

\* x * y
jsMul(x, y) ==
    IF x.k = "nan" \/ y.k = "nan" THEN NaN
    ELSE IF x.k = "inf" \/ y.k = "inf"
         THEN (IF IsZero(x) \/ IsZero(y) THEN NaN ELSE Inf(x.s * y.s))
    ELSE Fin(x.s * y.s, (x.m * y.m) \div Scale)

\* x / y with a zero divisor turned into 0.
jsDivZeroGuard(x, y) ==
    IF y.k = "fin" /\ y.m = 0 THEN Zero
    ELSE IF x.k = "nan" \/ y.k = "nan" THEN NaN
    ELSE IF x.k = "inf" THEN (IF y.k = "inf" THEN NaN ELSE Inf(x.s * y.s))
    ELSE IF y.k = "inf" THEN Fin(x.s * y.s, 0)
    ELSE Fin(x.s * y.s, (x.m * Scale) \div y.m)

\* x / y
jsDiv(x, y) ==
    IF x.k = "nan" \/ y.k = "nan" THEN NaN
    ELSE IF x.k = "inf" THEN (IF y.k = "inf" THEN NaN ELSE Inf(x.s * y.s))
    ELSE IF y.k = "inf" THEN Fin(x.s * y.s, 0)
    ELSE IF y.m = 0 THEN (IF x.m = 0 THEN NaN ELSE Inf(x.s * y.s))
    ELSE Fin(x.s * y.s, (x.m * Scale) \div y.m)

\* ToBoolean of a number | null: false for null, NaN, +0 and -0.
Truthy(x) == ~(x.k = "null" \/ x.k = "nan" \/ IsZero(x))

\* x || 0
OrZero(x) == IF Truthy(x) THEN x ELSE Zero

(***************************************************************************)
(* The fragment of double arithmetic the model covers                      *)
(***************************************************************************)
\* x is held exactly by a double.
IsExact(x) == x.k # "fin" \/ x.m % Pow(5, MaxFrac) = 0
InRange(x) == x.k # "fin" \/ x.m <= Limit
BothFin(x, y) == x.k = "fin" /\ y.k = "fin"

ExactAdd(x, y) == IsExact(x) /\ IsExact(y) /\ InRange(jsAdd(x, y))
ExactSub(x, y) == ExactAdd(x, jsNeg(y))
ExactMul(x, y) ==
    /\ IsExact(x) /\ IsExact(y)
    /\ BothFin(x, y) => (x.m * y.m) % Scale = 0 /\ InRange(jsMul(x, y))
ExactDiv(x, y) ==
    /\ IsExact(x) /\ IsExact(y)
    /\ (BothFin(x, y) /\ y.m # 0) => (x.m * Scale) % y.m = 0 /\ InRange(jsDiv(x, y))

(***************************************************************************)
(* String(number) and parseFloat(string)                                   *)
(***************************************************************************)
DigitChars == <<"0", "1", "2", "3", "4", "5", "6", "7", "8", "9">>
IsDigit(ch) == \E i \in 1..10 : DigitChars[i] = ch
DigitVal(ch) == (CHOOSE i \in 1..10 : DigitChars[i] = ch) - 1
InfinityStr == <<"I", "n", "f", "i", "n", "i", "t", "y">>
NaNStr == <<"N", "a", "N">>

RECURSIVE IntStr(_)
IntStr(n) == IF n < 10 THEN <<DigitChars[n + 1]>>
             ELSE Append(IntStr(n \div 10), DigitChars[(n % 10) + 1])

\* The w fraction digits of r (r < 10^w), trailing zeros dropped.
RECURSIVE FracStr(_, _)
FracStr(r, w) == IF r = 0 THEN <<>>
                 ELSE <<DigitChars[(r \div Pow(10, w - 1)) + 1]>>
                      \o FracStr(r % Pow(10, w - 1), w - 1)

\* String(x): Number::toString for the numbers of the model.
jsString(x) ==
    CASE x.k = "nan" -> NaNStr
      [] x.k = "inf" -> (IF x.s = -1 THEN <<"-">> ELSE <<>>) \o InfinityStr
      [] x.k = "null" -> <<"n", "u", "l", "l">>
      [] OTHER -> (IF x.s = -1 /\ x.m # 0 THEN <<"-">> ELSE <<>>)
                  \o IntStr(x.m \div Scale)
                  \o (IF x.m % Scale = 0 THEN <<>>
                      ELSE <<".">> \o FracStr(x.m % Scale, MaxFrac))

\* The number of digit characters of str from position i on.
RECURSIVE DigitRun(_, _)
DigitRun(str, i) == IF i <= Len(str) /\ IsDigit(str[i]) THEN 1 + DigitRun(str, i + 1)
                    ELSE 0

\* The value of the digit string ds.
RECURSIVE IntOf(_)
IntOf(ds) == IF ds = <<>> THEN 0
             ELSE 10 * IntOf(SubSeq(ds, 1, Len(ds) - 1)) + DigitVal(ds[Len(ds)])

\* The fraction digits ds in units of 10^-w (digits past the w-th are dropped).
RECURSIVE FracOf(_, _)
FracOf(ds, w) == IF w = 0 THEN 0
                 ELSE (IF ds = <<>> THEN 0 ELSE DigitVal(Head(ds)) * Pow(10, w - 1))
                      + FracOf(IF ds = <<>> THEN <<>> ELSE Tail(ds), w - 1)

StartsWith(str, pre) == Len(str) >= Len(pre) /\ SubSeq(str, 1, Len(pre)) = pre

\* parseFloat(str): the longest prefix of str that is a decimal literal (an
\* optional sign, then Infinity or digits with an optional fraction), NaN if none.
parseFloat(str) ==
    LET signed == Len(str) > 0 /\ str[1] \in {"-", "+"}
        sgn == IF Len(str) > 0 /\ str[1] = "-" THEN -1 ELSE 1
        body == IF signed THEN Tail(str) ELSE str
        ip == DigitRun(body, 1)
        dot == Len(body) > ip /\ body[ip + 1] = "."
        fp == IF dot THEN DigitRun(body, ip + 2) ELSE 0
    IN  IF StartsWith(body, InfinityStr) THEN Inf(sgn)
        ELSE IF ip = 0 /\ fp = 0 THEN NaN
        ELSE Fin(sgn, IntOf(SubSeq(body, 1, ip)) * Scale
                      + FracOf(SubSeq(body, ip + 2, ip + 1 + fp), MaxFrac))

\* str.includes(ch)
Includes(str, ch) == \E i \in 1..Len(str) : str[i] = ch

(***************************************************************************)
(* The buttons.  A button is named by its text.                            *)
(***************************************************************************)
Components == {"useCalculator", "Calculator"}
\* The digit buttons, and those of them the model presses.
AllDigits == {DigitChars[i] : i \in 1..10}
Digits == {"0", "3", "5", "7"}
Operators == {"+", "-", "*", "/"}
Equals == "="
\* The buttons of CalculatorBody, and those of Calculator.
HookButtons == AllDigits \cup Operators \cup
               {Equals, ".", "+/-", "%", "AC", "C", "MC", "MR", "M+", "M-"}
CalculatorButtons == AllDigits \cup Operators \cup {Equals, ".", "+/-", "%", "C"}

(***************************************************************************)
(* The state of the mounted engine.  display is the display of the hook    *)
(* and the displayValue of Calculator.  memory and history are the hook's: *)
(* Calculator has neither and leaves them as they are.  history is the     *)
(* string[] of the hook; a line "l op r = v" is kept as its five           *)
(* space-separated words.  presses counts the button events dispatched     *)
(* since the mount (up to MaxPresses), and trail holds the latest of them, *)
(* as far back as they still follow one of the press sequences in Watched; *)
(* in trail "=" is a press of = that called performOperation('=').         *)
(***************************************************************************)
VARIABLES component, display, storedValue, operator, waitingForOperand, memory,
          history, presses, trail

vars == <<component, display, storedValue, operator, waitingForOperand, memory,
          history, presses, trail>>

\* The buttons of the mounted component.
Buttons == IF component = "Calculator" THEN CalculatorButtons ELSE HookButtons

\* The values a render of the hook closes over.
State == [display |-> display, storedValue |-> storedValue, operator |-> operator,
          waitingForOperand |-> waitingForOperand, memory |-> memory,
          history |-> history]

\* The useState initial values.
Mounted == [display |-> <<"0">>, storedValue |-> null, operator |-> "null",
            waitingForOperand |-> FALSE, memory |-> Zero, history |-> <<>>]

(***************************************************************************)
(* The handlers.  Each reads the values c of the render it was created in  *)
(* and queues its set-calls on the pending state t; setHistory alone       *)
(* passes an updater, which reads t.                                       *)
(***************************************************************************)
\* clearAll that also empties the history.
clearAllAndHistory(c, t) ==
    [t EXCEPT !.display = <<"0">>, !.storedValue = null, !.operator = "null",
              !.waitingForOperand = FALSE, !.history = <<>>]

\* clearAll that also clears the memory.
clearAllAndMemory(c, t) ==
    [t EXCEPT !.display = <<"0">>, !.storedValue = null, !.operator = "null",
              !.waitingForOperand = FALSE, !.memory = Zero]

clearAll(c, t) ==
    [t EXCEPT !.display = <<"0">>, !.storedValue = null, !.operator = "null",
              !.waitingForOperand = FALSE]

\* clearDisplay that resets the pending operation as clearAll does.
clearDisplayResets(c, t) ==
    [t EXCEPT !.display = <<"0">>, !.storedValue = null, !.operator = "null",
              !.waitingForOperand = FALSE]

clearDisplay(c, t) ==
    [t EXCEPT !.display = <<"0">>, !.waitingForOperand = FALSE]

\* toggleSign that always shows the negative of the magnitude.
toggleSignNegative(c, t) ==
    LET value == parseFloat(c.display)
    IN  [t EXCEPT !.display = jsString([value EXCEPT !.s = -1])]

toggleSign(c, t) ==
    LET value == parseFloat(c.display)
    IN  [t EXCEPT !.display = jsString(jsNeg(value))]

inputPercent(c, t) ==
    LET value == parseFloat(c.display)
    IN  [t EXCEPT !.display = jsString(jsDiv(value, OfInt(100)))]

\* inputDot without the includes test.
inputDotAlways(c, t) ==
    IF c.waitingForOperand
    THEN [t EXCEPT !.display = <<"0", ".">>, !.waitingForOperand = FALSE]
    ELSE [t EXCEPT !.display = Append(c.display, ".")]

inputDot(c, t) ==
    IF c.waitingForOperand
    THEN [t EXCEPT !.display = <<"0", ".">>, !.waitingForOperand = FALSE]
    ELSE IF ~Includes(c.display, ".")
         THEN [t EXCEPT !.display = Append(c.display, ".")]
         ELSE t

\* inputDigit without the test for a display of "0".
inputDigitAppends(c, t, digit) ==
    IF c.waitingForOperand
    THEN [t EXCEPT !.display = <<digit>>, !.waitingForOperand = FALSE]
    ELSE [t EXCEPT !.display = Append(c.display, digit)]

inputDigit(c, t, digit) ==
    IF c.waitingForOperand
    THEN [t EXCEPT !.display = <<digit>>, !.waitingForOperand = FALSE]
    ELSE [t EXCEPT !.display = IF c.display = <<"0">> THEN <<digit>>
                                ELSE Append(c.display, digit)]

\* The switch of performOperation: operator applied to currentValue and inputValue.
Calculate(op, currentValue, inputValue) ==
    CASE op = "+" -> jsAdd(currentValue, inputValue)
      [] op = "-" -> jsSub(currentValue, inputValue)
      [] op = "*" -> jsMul(currentValue, inputValue)
      [] op = "/" -> jsDiv(currentValue, inputValue)
      [] OTHER -> inputValue

\* `${currentValue} ${operator} ${inputValue} = ${newValue}`
HistoryLine(currentValue, op, inputValue, newValue) ==
    <<jsString(currentValue), <<op>>, jsString(inputValue), <<"=">>, jsString(newValue)>>

performOperation(c, t, nextOperator) ==
    LET inputValue == parseFloat(c.display)
        currentValue == OrZero(c.storedValue)
        newValue == Calculate(c.operator, currentValue, inputValue)
        resolved ==
            IF c.storedValue = null
            THEN [t EXCEPT !.storedValue = inputValue]
            ELSE IF c.operator # "null"
                 THEN [t EXCEPT !.storedValue = newValue,
                                !.display = jsString(newValue),
                                !.history = Append(t.history,
                                    HistoryLine(currentValue, c.operator, inputValue, newValue))]
                 ELSE t
    IN  [resolved EXCEPT !.waitingForOperand = TRUE, !.operator = nextOperator]

handleMemoryAdd(c, t) ==
    [t EXCEPT !.memory = jsAdd(c.memory, parseFloat(c.display))]

handleMemorySubtract(c, t) ==
    [t EXCEPT !.memory = jsSub(c.memory, parseFloat(c.display))]

\* handleMemoryRecall that also clears the memory.
handleMemoryRecallAndClear(c, t) ==
    [t EXCEPT !.display = jsString(c.memory), !.waitingForOperand = TRUE,
              !.memory = Zero]

\* handleMemoryRecall that leaves waitingForOperand as it is.
handleMemoryRecallKeepsFlag(c, t) ==
    [t EXCEPT !.display = jsString(c.memory)]

handleMemoryRecall(c, t) ==
    [t EXCEPT !.display = jsString(c.memory), !.waitingForOperand = TRUE]

handleMemoryClear(c, t) ==
    [t EXCEPT !.memory = Zero]

(***************************************************************************)
(* The handlers of Calculator (src/App.tsx).                               *)
(***************************************************************************)
Calculator_clearAll(c, t) ==
    [t EXCEPT !.display = <<"0">>, !.storedValue = null, !.operator = "null",
              !.waitingForOperand = FALSE]

\* digit is the number on the button; String(digit) is its one character.
Calculator_inputDigit(c, t, digit) ==
    IF c.waitingForOperand
    THEN [t EXCEPT !.display = jsString(OfInt(DigitVal(digit))),
                   !.waitingForOperand = FALSE]
    ELSE [t EXCEPT !.display = IF c.display = <<"0">> THEN jsString(OfInt(DigitVal(digit)))
                                ELSE Append(c.display, digit)]

Calculator_inputDot(c, t) ==
    IF c.waitingForOperand
    THEN [t EXCEPT !.display = <<"0", ".">>, !.waitingForOperand = FALSE]
    ELSE IF ~Includes(c.display, ".")
         THEN [t EXCEPT !.display = Append(c.display, ".")]
         ELSE t

\* The switch of Calculator's performOperation: its default leaves newValue 0.
Calculator_Calculate(op, currentValue, inputValue) ==
    CASE op = "+" -> jsAdd(currentValue, inputValue)
      [] op = "-" -> jsSub(currentValue, inputValue)
      [] op = "*" -> jsMul(currentValue, inputValue)
      [] op = "/" -> jsDiv(currentValue, inputValue)
      [] OTHER -> Zero

Calculator_performOperation(c, t, nextOperator) ==
    LET inputValue == parseFloat(c.display)
        currentValue == OrZero(c.storedValue)
        newValue == Calculator_Calculate(c.operator, currentValue, inputValue)
        resolved ==
            IF c.storedValue = null
            THEN [t EXCEPT !.storedValue = inputValue]
            ELSE IF c.operator # "null"
                 THEN [t EXCEPT !.storedValue = newValue,
                                !.display = jsString(newValue)]
                 ELSE t
    IN  [resolved EXCEPT !.waitingForOperand = TRUE, !.operator = nextOperator]

handleEquals(c, t) ==
    IF c.operator # "null" /\ ~c.waitingForOperand
    THEN [Calculator_performOperation(c, t, Equals) EXCEPT !.operator = "null"]
    ELSE t

handlePercentage(c, t) ==
    LET value == parseFloat(c.display)
    IN  [t EXCEPT !.display = jsString(jsDiv(value, OfInt(100)))]

Calculator_toggleSign(c, t) ==
    LET value == parseFloat(c.display)
    IN  [t EXCEPT !.display = jsString(jsNeg(value))]

\* The onClick of Calculator's button with text b.
Calculator_onClick(b, c, t) ==
    CASE b \in AllDigits -> Calculator_inputDigit(c, t, b)
      [] b \in Operators -> Calculator_performOperation(c, t, b)
      [] b = Equals -> handleEquals(c, t)
      [] b = "." -> Calculator_inputDot(c, t)
      [] b = "+/-" -> Calculator_toggleSign(c, t)
      [] b = "%" -> handlePercentage(c, t)
      [] b = "C" -> Calculator_clearAll(c, t)

\* The onClick of CalculatorBody's button with text b.
Hook_onClick(b, c, t) ==
    CASE b \in AllDigits -> inputDigit(c, t, b)
      [] b \in Operators \cup {Equals} -> performOperation(c, t, b)
      [] b = "." -> inputDot(c, t)
      [] b = "+/-" -> toggleSign(c, t)
      [] b = "%" -> inputPercent(c, t)
      [] b = "AC" -> clearAll(c, t)
      [] b = "C" -> clearDisplay(c, t)
      [] b = "MC" -> handleMemoryClear(c, t)
      [] b = "MR" -> handleMemoryRecall(c, t)
      [] b = "M+" -> handleMemoryAdd(c, t)
      [] b = "M-" -> handleMemorySubtract(c, t)

\* The onClick of the mounted component's button with text b.
onClick(b, c, t) ==
    IF component = "Calculator" THEN Calculator_onClick(b, c, t)
    ELSE Hook_onClick(b, c, t)

\* The operator a press of an operator button or = resolves, "null" if none.
Resolves(b) ==
    IF storedValue = null \/ operator = "null" THEN "null"
    ELSE IF component = "Calculator" /\ b = Equals /\ waitingForOperand THEN "null"
    ELSE operator

(***************************************************************************)
(* What the model leaves out of a run: arithmetic outside the covered      *)
(* fragment, and text or history past the bounds.                          *)
(***************************************************************************)
\* The arithmetic of Calculate(op, x, y) is covered.
ExactCalc(op, x, y) ==
    CASE op = "+" -> ExactAdd(x, y)
      [] op = "-" -> ExactSub(x, y)
      [] op = "*" -> ExactMul(x, y)
      [] op = "/" -> ExactDiv(x, y)
      [] OTHER -> TRUE

\* The number of characters of str after its first ".", 0 when it has none.
RECURSIVE FracLen(_)
FracLen(str) == IF str = <<>> THEN 0
                ELSE IF Head(str) = "." THEN Len(str) - 1
                ELSE FracLen(Tail(str))

\* A text the keys may compose: at most MaxLen characters, at most MaxFrac of
\* them after the point, a value of at most MaxVal.
Typable(str) ==
    /\ Len(str) <= MaxLen
    /\ FracLen(str) <= MaxFrac
    /\ InRange(parseFloat(str))

(***************************************************************************)
(* Watched press sequences: each is a sequence of sets of button texts.    *)
(* "mount" stands for the mount of the component.                          *)
(***************************************************************************)
\* mount, a, op1, b, op2, c, =
ChainPresses == <<{"mount"}, Digits, Operators, Digits, Operators, Digits, {Equals}>>
\* =, 3, op, 5, =
FreshPresses == <<{Equals}, {"3"}, Operators, {"5"}, {Equals}>>
\* MC, 7, M+, 3, M+, MR
MemoryPresses == <<{"MC"}, {"7"}, {"M+"}, {"3"}, {"M+"}, {"MR"}>>
\* mount, a, /, 0, =
DividePresses == <<{"mount"}, Digits, {"/"}, {"0"}, {Equals}>>
\* M+, AC
ClearPresses == <<{"M+"}, {"AC"}>>
\* ., .
DotPresses == <<{"."}, {"."}>>
\* 5, +/-, +/-
SignPresses == <<{"5"}, {"+/-"}, {"+/-"}>>
\* mount, a, op, b, C, c, =
EntryPresses == <<{"mount"}, Digits, Operators, Digits, {"C"}, Digits, {Equals}>>
\* M+, +, MR, =
RecallPresses == <<{"M+"}, {"+"}, {"MR"}, {Equals}>>

Watched == {ChainPresses, FreshPresses, MemoryPresses, DividePresses, ClearPresses,
            DotPresses, SignPresses, EntryPresses, RecallPresses}

\* s is the beginning of the press sequence p.
Begins(s, p) == Len(s) <= Len(p) /\ \A i \in 1..Len(s) : s[i] \in p[i]
\* s is the whole press sequence p.
Follows(s, p) == Len(s) = Len(p) /\ Begins(s, p)
Live(s) == \E p \in Watched : Begins(s, p)

\* The trail after button b: the longest end of trail and b that is live.
Track(tr, b) ==
    LET ext == Append(tr, b)
        from == Min({i \in 1..(Len(ext) + 1) : Live(SubSeq(ext, i, Len(ext)))})
    IN  SubSeq(ext, from, Len(ext))

\* The latest presses were the sequence p.
Pressed(p) ==
    /\ Len(trail) >= Len(p)
    /\ Follows(SubSeq(trail, Len(trail) - Len(p) + 1, Len(trail)), p)

Init ==
    /\ component \in Components
    /\ display = Mounted.display
    /\ storedValue = Mounted.storedValue
    /\ operator = Mounted.operator
    /\ waitingForOperand = Mounted.waitingForOperand
    /\ memory = Mounted.memory
    /\ history = Mounted.history
    /\ presses = 0
    /\ trail = <<"mount">>

\* A button event (onPointerUp -> onClick, or onClick): the handler runs to the
\* state n and the component renders n before the next event.  A watched press
\* sequence begun within MaxPresses presses is followed to its end.
Commit(n, tr) ==
    /\ IF presses < MaxPresses THEN TRUE ELSE Len(tr) > Len(trail)
    /\ Len(n.history) <= MaxHist
    /\ display' = n.display
    /\ storedValue' = n.storedValue
    /\ operator' = n.operator
    /\ waitingForOperand' = n.waitingForOperand
    /\ memory' = n.memory
    /\ history' = n.history
    /\ presses' = IF presses < MaxPresses THEN presses + 1 ELSE presses
    /\ trail' = tr
    /\ UNCHANGED component

\* What trail keeps of a press of b: the button's text, but "none" for an = of
\* Calculator that does not call performOperation('=').
Command(b) ==
    IF component = "Calculator" /\ b = Equals /\ ~(operator # "null" /\ ~waitingForOperand)
    THEN "none"
    ELSE b

Press(b) ==
    /\ IF presses < MaxPresses THEN TRUE ELSE trail # <<>>
    /\ b \in Buttons
    /\ Commit(onClick(b, State, State), Track(trail, Command(b)))

\* AC of CalculatorBody, C of Calculator.
ClearAll ==
    /\ Press(IF component = "Calculator" THEN "C" ELSE "AC")

\* C of CalculatorBody.
ClearDisplay ==
    /\ component = "useCalculator"
    /\ Press("C")

ToggleSign ==
    /\ Press("+/-")

InputPercent ==
    /\ ExactDiv(parseFloat(display), OfInt(100))
    /\ Press("%")

InputDot ==
    /\ IF waitingForOperand THEN TRUE
       ELSE IF Includes(display, ".") THEN TRUE
       ELSE Typable(Append(display, "."))
    /\ Press(".")

InputDigit ==
    \E digit \in Digits :
        /\ IF waitingForOperand THEN TRUE
           ELSE IF display = <<"0">> THEN TRUE
           ELSE Typable(Append(display, digit))
        /\ Press(digit)

\* An operator button, or = of CalculatorBody.
PerformOperation ==
    \E nextOperator \in Operators \cup {Equals} :
        /\ component = "Calculator" => nextOperator # Equals
        /\ ExactCalc(Resolves(nextOperator), OrZero(storedValue), parseFloat(display))
        /\ Press(nextOperator)

\* = of Calculator.
HandleEquals ==
    /\ component = "Calculator"
    /\ ExactCalc(Resolves(Equals), OrZero(storedValue), parseFloat(display))
    /\ Press(Equals)

HandleMemoryAdd ==
    /\ ExactAdd(memory, parseFloat(display))
    /\ Press("M+")

HandleMemorySubtract ==
    /\ ExactSub(memory, parseFloat(display))
    /\ Press("M-")

HandleMemoryRecall ==
    /\ Press("MR")

HandleMemoryClear ==
    /\ Press("MC")

Next ==
    \/ ClearAll
    \/ ClearDisplay
    \/ ToggleSign
    \/ InputPercent
    \/ InputDot
    \/ InputDigit
    \/ PerformOperation
    \/ HandleEquals
    \/ HandleMemoryAdd
    \/ HandleMemorySubtract
    \/ HandleMemoryRecall
    \/ HandleMemoryClear

Spec == Init /\ [][Next]_vars

(***************************************************************************)
(* Two calls of a button's onClick before the component renders again.     *)
(* onPointerUp sits on the button's group, and a pointer event reaches the *)
(* group once for each of its meshes the ray hits (the box and the label), *)
(* so one pointer-up may call onClick twice.  Both calls run the handler   *)
(* of the last render: they read the same closure, and the second writes   *)
(* on the state the first has queued.                                      *)
(***************************************************************************)
\* The press of b stays within the fragment of double arithmetic covered.
Exact(b) ==
    CASE b \in AllDigits ->
             (IF waitingForOperand THEN TRUE
              ELSE IF display = <<"0">> THEN TRUE
              ELSE Typable(Append(display, b)))
      [] b = "." ->
             (IF waitingForOperand THEN TRUE
              ELSE IF Includes(display, ".") THEN TRUE
              ELSE Typable(Append(display, ".")))
      [] b = "%" -> ExactDiv(parseFloat(display), OfInt(100))
      [] b \in Operators \cup {Equals} ->
             ExactCalc(Resolves(b), OrZero(storedValue), parseFloat(display))
      [] b = "M+" -> ExactAdd(memory, parseFloat(display))
      [] b = "M-" -> ExactSub(memory, parseFloat(display))
      [] OTHER -> TRUE

\* The state after two calls of b's onClick in one render.
Twice(b) == onClick(b, State, onClick(b, State, State))

PressTwice(b) ==
    /\ component = "useCalculator"
    /\ presses < MaxPresses
    /\ Exact(b)
    /\ Commit(Twice(b), <<"twice">>)

DispatchTwice ==
    \E b \in (HookButtons \ AllDigits) \cup Digits : PressTwice(b)

NextBatched ==
    \/ Next
    \/ DispatchTwice

SpecBatched == Init /\ [][NextBatched]_vars

(***************************************************************************)
(* The claims                                                              *)
(***************************************************************************)
\* The double of the digit button ch.
OfDigit(ch) == OfInt(DigitVal(ch))
IsPrefix(s, t) == Len(s) <= Len(t) /\ SubSeq(t, 1, Len(s)) = s
\* x and y are the same number, +0 and -0 taken as one.
SameNumber(x, y) == x = y \/ (IsZero(x) /\ IsZero(y))
DotCount(str) == Cardinality({i \in 1..Len(str) : str[i] = "."})

\* C1: after mount, a, op1, b, op2, c, = the display is
\* String(apply(op2, apply(op1, a, b), c)), and right after op2 it already is
\* String(apply(op1, a, b)).
ChainLeftToRight ==
    /\ Follows(trail, SubSeq(ChainPresses, 1, 5)) =>
           display = jsString(Calculate(trail[3], OfDigit(trail[2]), OfDigit(trail[4])))
    /\ Follows(trail, ChainPresses) =>
           display = jsString(Calculate(trail[5],
                                        Calculate(trail[3], OfDigit(trail[2]), OfDigit(trail[4])),
                                        OfDigit(trail[6])))

\* C2: after =, the presses a, op, b, = leave display = String(apply(op, a, b))
\* whatever the result before; and an operator pressed right after = takes the
\* value shown as the accumulator of the new chain.
FreshAfterEquals ==
    /\ Pressed(FreshPresses) =>
           LET n == Len(trail)
           IN  display = jsString(Calculate(trail[n - 2], OfDigit(trail[n - 3]),
                                            OfDigit(trail[n - 1])))
    /\ Pressed(<<{Equals}>>) =>
           \A op \in Operators :
               LET n == onClick(op, State, State)
               IN  /\ SameNumber(n.storedValue, parseFloat(display))
                   /\ SameNumber(parseFloat(n.display), parseFloat(display))
                   /\ n.operator = op

\* C3: operator is +, -, *, / or null in every state (= is never stored).
PendingOperatorIsBinary == operator \in Operators \cup {"null"}

\* C4: every history line l op r = v has op among +, -, *, / and
\* v = String(apply(op, l, r)); after a chain a, op1, b, op2, c, = there are two
\* lines, the first starting with a, the second starting with the first's result.
HistoryRecordsResolutions ==
    /\ \A i \in 1..Len(history) :
           LET e == history[i]
           IN  /\ e[2][1] \in Operators
               /\ e[5] = jsString(Calculate(e[2][1], parseFloat(e[1]), parseFloat(e[3])))
    /\ Follows(trail, ChainPresses) =>
           /\ Len(history) = 2
           /\ history[1][1] = <<trail[2]>>
           /\ history[2][1] = history[1][5]

\* C5: whatever button is pressed, the history before is a prefix of the history
\* after, at most one line is added, and only by an operator button or =.
HistoryAppendOnly ==
    \A b \in Buttons :
        LET n == onClick(b, State, State)
        IN  /\ IsPrefix(history, n.history)
            /\ Len(n.history) <= Len(history) + 1
            /\ n.history # history => b \in Operators \cup {Equals}

\* C5 witness: AC was pressed with lines in the history, and they are still there.
HistoryKeptByClearAll ==
    /\ Len(history) > 0
    /\ storedValue = null
    /\ operator = "null"

\* C6: MC, 7, M+, 3, M+, MR leave display "10".
MemoryRoundTrip == Pressed(MemoryPresses) => display = <<"1", "0">>

\* C7: clearAll leaves the state of a fresh mount but for memory and history,
\* which it leaves as they were.
ClearAllResets ==
    clearAll(State, State) = [Mounted EXCEPT !.memory = memory, !.history = history]

\* C7 witness: M+ with display "7", then AC: memory is 7.
MemoryKeptByClearAll ==
    /\ Pressed(ClearPresses)
    /\ memory = OfInt(7)
    /\ display = <<"0">>
    /\ storedValue = null

\* A state of the hook: every value has the type its useState gives it.
IsText(str) == \A i \in 1..Len(str) : str[i] \in STRING
IsNumber(x) == x.k \in {"fin", "inf", "nan"} /\ x.s \in {1, -1} /\ x.m >= 0
WellFormed(n) ==
    /\ IsText(n.display) /\ Len(n.display) > 0
    /\ n.storedValue = null \/ IsNumber(n.storedValue)
    /\ n.operator \in Operators \cup {Equals, "null"}
    /\ n.waitingForOperand \in BOOLEAN
    /\ IsNumber(n.memory)
    /\ \A i \in 1..Len(n.history) : Len(n.history[i]) = 5

\* C8: every button's handler yields a state, in every state; a division by zero
\* shows Infinity, -Infinity or NaN by the sign of the accumulator, and
\* mount, a, /, 0, = shows Infinity (NaN for a = 0).
DivisionByZeroSentinel ==
    /\ \A b \in Buttons : WellFormed(onClick(b, State, State))
    /\ \A b \in Operators \cup {Equals} :
           (Resolves(b) = "/" /\ IsZero(parseFloat(display))) =>
               onClick(b, State, State).display =
                   (IF IsZero(storedValue) \/ storedValue.k = "nan" THEN NaNStr
                    ELSE IF storedValue.s = 1 THEN InfinityStr
                    ELSE <<"-">> \o InfinityStr)
    /\ Pressed(DividePresses) =>
           display = (IF trail[2] = "0" THEN NaNStr ELSE InfinityStr)

\* C8 witness: 5, /, 0, = shows Infinity.
FiveByZeroShown ==
    /\ Pressed(DividePresses)
    /\ trail[2] = "5"
    /\ display = InfinityStr

\* C9: on a display that parses to no number, M+, M-, the sign key, % and the
\* operator keys take 0 as its value.
UnparseableDisplayIsZero ==
    [][parseFloat(display).k = "nan" =>
           /\ HandleMemoryAdd => memory' = memory
           /\ HandleMemorySubtract => memory' = memory
           /\ ToggleSign => display' = <<"0">>
           /\ InputPercent => display' = <<"0">>
           /\ (PerformOperation /\ storedValue = null) => storedValue' = Zero]_vars

\* C10: display holds at most one ".", and the point key changes nothing when
\* display has one and no fresh operand is awaited.
AtMostOneDot ==
    /\ DotCount(display) <= 1
    /\ (~waitingForOperand /\ Includes(display, ".")) => onClick(".", State, State) = State

\* C10 witness: the point key was pressed twice and display is "0.".
SecondDotIgnored ==
    /\ Pressed(DotPresses)
    /\ display = <<"0", ".">>

\* str is a plain decimal literal: an optional "-", then digits with at most one
\* ".", the first character a digit.
IsLiteral(str) ==
    LET body == IF str # <<>> /\ Head(str) = "-" THEN Tail(str) ELSE str
    IN  /\ body # <<>>
        /\ IsDigit(body[1])
        /\ \A i \in 1..Len(body) : IsDigit(body[i]) \/ body[i] = "."
        /\ DotCount(body) <= 1

\* C11: display is always a plain decimal literal that parses to a finite number,
\* and a digit key never appends to a display that is not one.
DisplayIsFiniteLiteral ==
    /\ IsLiteral(display)
    /\ parseFloat(display).k = "fin"
    /\ \A b \in AllDigits :
           ~IsLiteral(display) => onClick(b, State, State).display = <<b>>

\* C12: operator is null exactly when storedValue is null.
OperatorNullIffAccumulatorNull == (operator = "null") <=> (storedValue = null)

\* C13: an operator key, an = that calls performOperation, and MR leave
\* waitingForOperand true; with it true a digit key shows just that digit and the
\* point key shows "0.", both clearing it; no other key but AC and C clears it.
WaitingStartsFreshOperand ==
    /\ \A b \in (Operators \cup {Equals, "MR"}) \cap Buttons :
           Command(b) # "none" => onClick(b, State, State).waitingForOperand
    /\ waitingForOperand =>
           /\ \A b \in AllDigits :
                  LET n == onClick(b, State, State)
                  IN  n.display = <<b>> /\ ~n.waitingForOperand
           /\ LET n == onClick(".", State, State)
              IN  n.display = <<"0", ".">> /\ ~n.waitingForOperand
           /\ \A b \in Buttons \ (AllDigits \cup {".", "AC", "C"}) :
                  onClick(b, State, State).waitingForOperand

\* C13 witness: after = left a result other than 0 and 3 on display, the key 3
\* made the display "3" and cleared the flag.
FreshDigitShown ==
    /\ component = "useCalculator"
    /\ Pressed(<<{Equals}, {"3"}>>)
    /\ storedValue \notin {null, Zero, OfInt(3)}
    /\ display = <<"3">>
    /\ ~waitingForOperand

\* x === y
jsEq(x, y) == x.k # "nan" /\ y.k # "nan" /\ SameNumber(x, y)

\* The sign key pressed in the state n.
Signed(n) == onClick("+/-", n, n)

ClearEntryCorrectsOperand ==
    component = "useCalculator" =>
        /\ clearDisplay(State, State) =
               [State EXCEPT !.display = <<"0">>, !.waitingForOperand = FALSE]
        /\ Follows(trail, EntryPresses) =>
               LET a == OfDigit(trail[2])
                   c == OfDigit(trail[6])
                   result == Calculate(trail[3], a, c)
               IN  /\ display = jsString(result)
                   /\ history = <<HistoryLine(a, trail[3], c, result)>>

\* C15 witness: 3, +, 5, C, 7, = shows "10".
OperandCorrected ==
    /\ component = "useCalculator"
    /\ Follows(trail, EntryPresses)
    /\ <<trail[2], trail[3], trail[4], trail[6]>> = <<"3", "+", "5", "7">>
    /\ display = <<"1", "0">>

\* C16: only M+, M- and MC change memory, to memory + parseFloat(display),
\* memory - parseFloat(display) and 0, changing nothing else; MR changes only
\* display and the flag, and the value it recalls is the right operand of the
\* pending operator.
MemoryIndependent ==
    component = "useCalculator" =>
        /\ \A b \in Buttons :
               onClick(b, State, State).memory # memory => b \in {"M+", "M-", "MC"}
        /\ handleMemoryAdd(State, State) =
               [State EXCEPT !.memory = jsAdd(memory, parseFloat(display))]
        /\ handleMemorySubtract(State, State) =
               [State EXCEPT !.memory = jsSub(memory, parseFloat(display))]
        /\ handleMemoryClear(State, State) = [State EXCEPT !.memory = Zero]
        /\ LET n == handleMemoryRecall(State, State)
           IN  /\ n = [State EXCEPT !.display = jsString(memory),
                                    !.waitingForOperand = TRUE]
               /\ (storedValue # null /\ operator \in Operators
                      /\ ExactCalc(operator, OrZero(storedValue), memory)) =>
                      performOperation(n, n, Equals).display =
                          jsString(Calculate(operator, OrZero(storedValue), memory))
        /\ Pressed(RecallPresses) =>
               /\ history # <<>>
               /\ history[Len(history)][2] = <<"+">>
               /\ history[Len(history)][3] = jsString(memory)

\* C16 witness: M+ on display "7" with memory 0, then +, MR, = shows "14".
RecalledAsOperand ==
    /\ Pressed(RecallPresses)
    /\ memory = OfInt(7)
    /\ display = <<"1", "4">>

\* C17: an operator key or = adds a history line, or changes the display, only
\* with an operator among +, -, *, / pending and an operand entered since.
HistoryOnlyOnResolution ==
    \A b \in Operators \cup {Equals} :
        LET n == onClick(b, State, State)
        IN  (n.history # history \/ n.display # display) =>
                (operator \in Operators /\ ~waitingForOperand)

\* str starts with "0" or "-0" followed by a digit.
LeadingZero(str) ==
    LET body == IF str # <<>> /\ Head(str) = "-" THEN Tail(str) ELSE str
    IN  Len(body) >= 2 /\ body[1] = "0" /\ IsDigit(body[2])

\* C18: display never starts with a 0 followed by a digit, and a digit key on
\* display "0" shows just that digit.
NoLeadingZero ==
    /\ ~LeadingZero(display)
    /\ display = <<"0">> =>
           \A b \in AllDigits : onClick(b, State, State).display = <<b>>

\* C18 witness: the key 0 was pressed on the display "0" of the mount, and
\* display is "0".
ZeroOnZero ==
    /\ trail = <<"mount", "0">>
    /\ display = <<"0">>

\* C19: two calls of a button's onClick before a render leave the state that
\* the second call leaves when it runs on the state left by the first.
NoLostUpdate ==
    [][\A b \in HookButtons :
           PressTwice(b) =>
               LET first == onClick(b, State, State)
               IN  State' = onClick(b, first, first)]_vars
====
